---------------------------- MODULE Spec2Model ----------------------------
(***************************************************************************)
(* Model of BayesClassifier::classify (crates/nlp/src/bayes/classify.rs).  *)
(*                                                                         *)
(* The routine is pure; the state machine below walks one call through its *)
(* stages: admissibility gate, token loop, sufficiency gate, combiner      *)
(* (Fisher or naive), finalizer and threshold.                             *)
(*                                                                         *)
(* f64 values are modelled as binary floating point numbers with a         *)
(* MantBits-bit mantissa instead of 53 bits, the f64 exponent range, and   *)
(* the three non-finite values NaN, +Infinity, -Infinity.  Arithmetic      *)
(* follows IEEE-754 rules for the special values and rounds finite         *)
(* results to MantBits bits.                                               *)
(***************************************************************************)
EXTENDS Integers, Sequences, FiniteSets, TLC

(***************************************************************************)
(* Bounds of the model.                                                    *)
(***************************************************************************)
\* width of the mantissa of a modelled f64
MantBits == 19

(***************************************************************************)
(* f64: representation.  A finite value is m * 2^e with m = 0 (and e = 0)  *)
(* or 2^(MantBits-1) <= |m| < 2^MantBits.                                  *)
(***************************************************************************)
NaN    == [k |-> "nan",  m |-> 0, e |-> 0]
PosInf == [k |-> "inf",  m |-> 0, e |-> 0]
NegInf == [k |-> "ninf", m |-> 0, e |-> 0]
Zero   == [k |-> "fin",  m |-> 0, e |-> 0]

IsNaN(x)    == x.k = "nan"
is_finite(x) == x.k = "fin"

AbsInt(n) == IF n < 0 THEN -n ELSE n
SgnInt(n) == IF n < 0 THEN -1 ELSE IF n > 0 THEN 1 ELSE 0

\* number of significant bits of n, 0 < n < 2^31
BitLen(n) ==
    IF n < 65536
    THEN IF n < 256
         THEN IF n < 16
              THEN IF n < 4
                   THEN IF n < 2
                        THEN 1
                        ELSE 2
                   ELSE IF n < 8
                        THEN 3
                        ELSE 4
              ELSE IF n < 64
                   THEN IF n < 32
                        THEN 5
                        ELSE 6
                   ELSE IF n < 128
                        THEN 7
                        ELSE 8
         ELSE IF n < 4096
              THEN IF n < 1024
                   THEN IF n < 512
                        THEN 9
                        ELSE 10
                   ELSE IF n < 2048
                        THEN 11
                        ELSE 12
              ELSE IF n < 16384
                   THEN IF n < 8192
                        THEN 13
                        ELSE 14
                   ELSE IF n < 32768
                        THEN 15
                        ELSE 16
    ELSE IF n < 16777216
         THEN IF n < 1048576
              THEN IF n < 262144
                   THEN IF n < 131072
                        THEN 17
                        ELSE 18
                   ELSE IF n < 524288
                        THEN 19
                        ELSE 20
              ELSE IF n < 4194304
                   THEN IF n < 2097152
                        THEN 21
                        ELSE 22
                   ELSE IF n < 8388608
                        THEN 23
                        ELSE 24
         ELSE IF n < 268435456
              THEN IF n < 67108864
                   THEN IF n < 33554432
                        THEN 25
                        ELSE 26
                   ELSE IF n < 134217728
                        THEN 27
                        ELSE 28
              ELSE IF n < 1073741824
                   THEN IF n < 536870912
                        THEN 29
                        ELSE 30
                   ELSE 31

\* the range of an f64: overflow gives an infinity, underflow gives zero
Range(s, q, ex) ==
    IF ex + MantBits > 1024 THEN (IF s < 0 THEN NegInf ELSE PosInf)
    ELSE IF ex + MantBits < -1073 THEN Zero
    ELSE [k |-> "fin", m |-> s * q, e |-> ex]

\* the value s * q * 2^ex, q rounded to MantBits bits with a possible carry
Pack(s, q, ex) ==
    IF q = 2^MantBits THEN Range(s, 2^(MantBits-1), ex + 1) ELSE Range(s, q, ex)

\* a > 0 rounded to MantBits bits (ties away from zero) when it has sh bits more
Round(a, sh) ==
    IF sh <= 0 THEN a * (2^(-sh))
    ELSE (a \div (2^sh)) + (IF 2 * (a % (2^sh)) >= 2^sh THEN 1 ELSE 0)

NormBits(m, e, sh) == Pack(SgnInt(m), Round(AbsInt(m), sh), e + sh)

\* f64 rounding and range: the value m * 2^e as an f64
Norm(m, e) ==
    IF m = 0 THEN Zero ELSE NormBits(m, e, BitLen(AbsInt(m)) - MantBits)

\* `n as f64`
FromInt(n) == Norm(n, 0)

\* the sign of a value that is not NaN: -1, 0 or 1
Sgn(x) == IF x.k = "inf" THEN 1 ELSE IF x.k = "ninf" THEN -1 ELSE SgnInt(x.m)

FNeg(x) ==
    IF x.k = "nan" THEN NaN
    ELSE IF x.k = "inf" THEN NegInf
    ELSE IF x.k = "ninf" THEN PosInf
    ELSE [x EXCEPT !.m = -x.m]

\* the sum of finite nonzero hi and lo, hi.e - lo.e = d >= 0, computed with
\* 8 more bits than the mantissa has
AddAligned(hi, lo, d) ==
    IF d > MantBits + 8 THEN hi
    ELSE Norm(hi.m * 256 + SgnInt(lo.m) * ((AbsInt(lo.m) * 256) \div (2^d)), hi.e - 8)

\* f64 addition
FAdd(x, y) ==
    IF IsNaN(x) \/ IsNaN(y) THEN NaN
    ELSE IF ~is_finite(x) /\ ~is_finite(y) THEN (IF x.k = y.k THEN x ELSE NaN)
    ELSE IF ~is_finite(x) THEN x
    ELSE IF ~is_finite(y) THEN y
    ELSE IF x.m = 0 THEN y
    ELSE IF y.m = 0 THEN x
    ELSE IF x.e >= y.e THEN AddAligned(x, y, x.e - y.e)
    ELSE AddAligned(y, x, y.e - x.e)

FSub(x, y) == FAdd(x, FNeg(y))

\* a * b / 1024 for mantissas a and b, from the two halves of b
MulHigh(a, b) == a * (b \div 1024) + (a * (b % 1024)) \div 1024

\* f64 multiplication
FMul(x, y) ==
    IF IsNaN(x) \/ IsNaN(y) THEN NaN
    ELSE IF ~is_finite(x) \/ ~is_finite(y)
    THEN (IF Sgn(x) * Sgn(y) = 0 THEN NaN
          ELSE IF Sgn(x) * Sgn(y) > 0 THEN PosInf ELSE NegInf)
    ELSE Norm(SgnInt(x.m) * SgnInt(y.m) * MulHigh(AbsInt(x.m), AbsInt(y.m)),
              x.e + y.e + 10)

\* a * 2^25 / b for mantissas a and b, by long division in steps of 10, 10
\* and 5 bits
DivStep(st, b, bits) ==
    <<st[1] * (2^bits) + (st[2] * (2^bits)) \div b, (st[2] * (2^bits)) % b>>

DivLong(a, b) == DivStep(DivStep(DivStep(<<0, a>>, b, 10), b, 10), b, 5)[1]

\* f64 division
FDiv(x, y) ==
    IF IsNaN(x) \/ IsNaN(y) THEN NaN
    ELSE IF ~is_finite(x) /\ ~is_finite(y) THEN NaN
    ELSE IF ~is_finite(x)
    THEN (IF Sgn(x) * Sgn(y) >= 0 THEN (IF Sgn(x) > 0 THEN PosInf ELSE NegInf)
          ELSE (IF Sgn(x) > 0 THEN NegInf ELSE PosInf))
    ELSE IF ~is_finite(y) THEN Zero
    ELSE IF y.m = 0
    THEN (IF x.m = 0 THEN NaN ELSE IF x.m > 0 THEN PosInf ELSE NegInf)
    ELSE Norm(SgnInt(x.m) * SgnInt(y.m) * DivLong(AbsInt(x.m), AbsInt(y.m)),
              x.e - y.e - 25)

\* f64 comparisons: every comparison with NaN is false
FLt(x, y) ==
    IF IsNaN(x) \/ IsNaN(y) THEN FALSE
    ELSE IF x.k = y.k /\ ~is_finite(x) THEN FALSE
    ELSE IF x.k = "ninf" \/ y.k = "inf" THEN TRUE
    ELSE IF x.k = "inf" \/ y.k = "ninf" THEN FALSE
    ELSE FSub(x, y).m < 0

FGt(x, y) == FLt(y, x)

\* f64::abs
FAbs(x) ==
    IF x.k = "ninf" THEN PosInf
    ELSE IF x.k = "fin" THEN [x EXCEPT !.m = AbsInt(x.m)]
    ELSE x

\* f64::max and f64::min: a NaN operand is ignored
FMax(x, y) == IF IsNaN(x) \/ FLt(x, y) THEN y ELSE x
FMin(x, y) == IF IsNaN(x) \/ FLt(y, x) THEN y ELSE x

\* `x as u32`: truncation toward zero, NaN and negatives give 0
\* (values beyond the model's integers saturate at 2^30)
AsU32(x) ==
    IF x.k = "inf" THEN 2^30
    ELSE IF x.k # "fin" \/ x.m <= 0 THEN 0
    ELSE IF x.e >= 0 THEN (IF x.e + MantBits > 30 THEN 2^30 ELSE x.m * (2^x.e))
    ELSE IF -x.e > 30 THEN 0
    ELSE x.m \div (2^(-x.e))

\* the literals 0.5 and 1.0
Half == Norm(1, -1)
One  == FromInt(1)

\* ln 2, rounded to the model's precision
LN2 == Norm(744261118, -30)

\* coefficients of the series used by FLn and FExp
Two     == FromInt(2)
Third   == FDiv(One, FromInt(3))
Fourth  == FDiv(One, FromInt(4))
Fifth   == FDiv(One, FromInt(5))
Sixth   == FDiv(One, FromInt(6))
Seventh == FDiv(One, FromInt(7))
Ninth   == FDiv(One, FromInt(9))
ExpMax  == FromInt(1100)

\* the nearest integer to a finite x with |x| < 2^30
RoundInt(x) == SgnInt(x.m) * AsU32(FAdd(FAbs(x), Half))

\* 2 * atanh(z) by its series, for |z| <= 1/5; zz is z * z
Atanh2(z, zz) ==
    FMul(Two, FMul(z,
        FAdd(One, FMul(zz,
            FAdd(Third, FMul(zz,
                FAdd(Fifth, FMul(zz,
                    FAdd(Seventh, FMul(zz, Ninth))))))))))

LnSeries(z) == Atanh2(z, FMul(z, z))

\* ln(f * 2^E) for 3/4 <= f < 3/2
LnReduced(f, E) ==
    FAdd(FMul(FromInt(E), LN2), LnSeries(FDiv(FSub(f, One), FAdd(f, One))))

\* f64::ln
FLn(x) ==
    IF IsNaN(x) \/ x.k = "ninf" THEN NaN
    ELSE IF x.k = "inf" THEN PosInf
    ELSE IF x.m < 0 THEN NaN
    ELSE IF x.m = 0 THEN NegInf
    ELSE IF x.m * 4 < 3 * (2^MantBits)
    THEN LnReduced(Norm(x.m, 1 - MantBits), x.e + MantBits - 1)
    ELSE LnReduced(Norm(x.m, -MantBits), x.e + MantBits)

\* x * 2^n for finite x
Scale(x, n) == Norm(x.m, x.e + n)

\* e^r by its series, for |r| <= 0.4
ExpSeries(r) ==
    FAdd(One, FMul(r,
        FAdd(One, FMul(FMul(r, Half),
            FAdd(One, FMul(FMul(r, Third),
                FAdd(One, FMul(FMul(r, Fourth),
                    FAdd(One, FMul(FMul(r, Fifth),
                        FAdd(One, FMul(r, Sixth))))))))))))

\* e^x as 2^n * e^(x - n * ln 2)
ExpReduced(x, n) == Scale(ExpSeries(FSub(x, FMul(FromInt(n), LN2))), n)

\* f64::exp
FExp(x) ==
    IF IsNaN(x) THEN NaN
    ELSE IF x.k = "inf" THEN PosInf
    ELSE IF x.k = "ninf" THEN Zero
    ELSE IF FGt(x, ExpMax) THEN PosInf
    ELSE IF FLt(x, FNeg(ExpMax)) THEN Zero
    ELSE ExpReduced(x, RoundInt(FDiv(x, LN2)))

(***************************************************************************)
(* Constants of the routine.                                               *)
(***************************************************************************)
\* Position 0 represents Unigram weights
FEATURE_WEIGHT == <<1, 3125, 256, 27, 1, 0, 0, 0>>

\* the literal -300.0 of the branch test
FisherLimit == FromInt(-300)

\* the literal 0.1 of the test after the loop
Tenth == FDiv(One, FromInt(10))

\* the literal 0.05 of the final test
Indecision == FDiv(FromInt(5), FromInt(100))

(***************************************************************************)
(* Pure parts of classify.                                                 *)
(***************************************************************************)
\* GateRejects with `&&` between the two comparisons
GateRejects_And(self, ham_learns, spam_learns) ==
    self.min_learns > 0
    /\ (spam_learns < self.min_learns /\ ham_learns < self.min_learns)

\* the admissibility test at the head of classify
GateRejects(self, ham_learns, spam_learns) ==
    self.min_learns > 0
    /\ (spam_learns < self.min_learns \/ ham_learns < self.min_learns)

prob_combine(prob, cnt, weight, assumed) ==
    FDiv(FAdd(FMul(weight, assumed), FMul(cnt, prob)), FAdd(weight, cnt))

\* the hit filter of the loop
TokenAdmitted(self, token) == token.spam + token.ham >= self.min_token_hits

\* spam_freq / (spam_freq + ham_freq), and the same with ham_freq on top
Share(freq, spam_freq, ham_freq) == FDiv(freq, FAdd(spam_freq, ham_freq))

\* w, from fw * total_count
Saturation(fwc) == FDiv(fwc, FAdd(One, fwc))

\* the values of one admitted token: total_count, spam_prob, ham_prob and w
Evidence(total_count, spam_freq, ham_freq, fw) ==
    [total_count |-> total_count,
     spam_prob   |-> Share(spam_freq, spam_freq, ham_freq),
     ham_prob    |-> Share(ham_freq, spam_freq, ham_freq),
     w           |-> Saturation(FMul(fw, total_count))]

TokenProbs(token, ham_learns, spam_learns) ==
    Evidence(FromInt(token.spam + token.ham),
             FDiv(FromInt(token.spam), FMax(One, FromInt(spam_learns))),
             FDiv(FromInt(token.ham), FMax(One, FromInt(ham_learns))),
             FromInt(FEATURE_WEIGHT[token.idx + 1]))

bayes_spam_prob(p) == prob_combine(p.spam_prob, p.total_count, p.w, Half)

bayes_ham_prob(p) == prob_combine(p.ham_prob, p.total_count, p.w, Half)

\* the strength filter: TRUE when the token is skipped
StrengthSkip(self, b) ==
    \/ (FGt(b, Half) /\ FLt(b, FAdd(Half, self.min_prob_strength)))
    \/ (FLt(b, Half) /\ FGt(b, FSub(Half, self.min_prob_strength)))

\* the three updates of a counted token
Accumulate(r, bs, bh) ==
    [r EXCEPT !.total_spam_prob = FAdd(@, FLn(bs)),
              !.total_ham_prob = FAdd(@, FLn(bh)),
              !.processed_tokens = @ + 1]

\* the body of `if total_count >= self.min_token_hits`, p the token's values
Weigh(r, self, p) ==
    IF StrengthSkip(self, bayes_spam_prob(p)) THEN r
    ELSE Accumulate(r, bayes_spam_prob(p), bayes_ham_prob(p))

\* one iteration of `for token in tokens`, on the locals r of a call
LoopBody(r, self, token, ham_learns, spam_learns) ==
    IF TokenAdmitted(self, token)
    THEN Weigh(r, self, TokenProbs(token, ham_learns, spam_learns))
    ELSE r

\* TooFewTokens without the min_tokens clause
TooFewTokens_ZeroOnly(self, processed_tokens) == processed_tokens = 0

\* the test after the loop: TRUE when classify returns None there
TooFewTokens(self, processed_tokens) ==
    \/ processed_tokens = 0
    \/ (self.min_tokens > 0
        /\ processed_tokens < AsU32(FMul(FromInt(self.min_tokens), Tenth)))

\* one iteration of `for i in 1..freedom_deg`: prob *= m / i; sum += prob
ChiTerm(prob, sum) == <<prob, FAdd(sum, prob)>>

ChiStep(st, m, i) == ChiTerm(FMul(st[1], FDiv(m, FromInt(i))), st[2])

\* the loop `for i in 1..freedom_deg` of inv_chi_square, iterations lo..hi-1,
\* on the pair st = <<prob, sum>>.  The index range is split in halves so that
\* the evaluation depth stays logarithmic; the first half is evaluated before
\* the second (a NaN sum stays NaN whatever is added to it).
RECURSIVE ChiSeries(_, _, _, _)
RECURSIVE ChiSecond(_, _, _, _)
ChiSecond(mid, hi, first, m) ==
    IF IsNaN(first[2]) THEN first ELSE ChiSeries(mid, hi, first, m)

ChiSeries(lo, hi, st, m) ==
    IF lo >= hi THEN st
    ELSE IF hi = lo + 1 THEN ChiStep(st, m, lo)
    ELSE ChiSecond((lo + hi) \div 2, hi, ChiSeries(lo, (lo + hi) \div 2, st, m), m)

\* inv_chi_square once prob = value.exp() is known
ChiTail(value, freedom_deg, prob) ==
    IF is_finite(prob)
    THEN FMin(One, ChiSeries(1, freedom_deg, <<prob, prob>>, FNeg(value))[2])
    ELSE IF FLt(value, Zero) THEN Zero ELSE One

inv_chi_square(value, freedom_deg) == ChiTail(value, freedom_deg, FExp(value))

\* the branch test: TRUE for the Fisher branch
UseFisher(total_spam_prob, total_ham_prob) ==
    FGt(total_spam_prob, FisherLimit) /\ FGt(total_ham_prob, FisherLimit)

\* (1.0 - x) / (1.0 + x) for x = (a - b).exp()
Tanh(x) == FDiv(FSub(One, x), FAdd(One, x))

NaiveConfidence(a, b) == Tanh(FExp(FSub(a, b)))

\* (h, 1.0 - h) and (1.0 - s, s)
HamFirst(h) == <<h, FSub(One, h)>>
SpamFirst(s) == <<FSub(One, s), s>>

\* the naive method: <<h, s>>
NaivePair(total_spam_prob, total_ham_prob) ==
    IF FLt(total_spam_prob, total_ham_prob)
    THEN HamFirst(NaiveConfidence(total_spam_prob, total_ham_prob))
    ELSE SpamFirst(NaiveConfidence(total_ham_prob, total_spam_prob))

\* FisherPair with the two log-sums exchanged
FisherPair_Swapped(total_spam_prob, total_ham_prob, processed_tokens) ==
    <<FSub(One, inv_chi_square(total_ham_prob, processed_tokens)),
      FSub(One, inv_chi_square(total_spam_prob, processed_tokens))>>

\* the Fisher method: <<h, s>>
FisherPair(total_spam_prob, total_ham_prob, processed_tokens) ==
    <<FSub(One, inv_chi_square(total_spam_prob, processed_tokens)),
      FSub(One, inv_chi_square(total_ham_prob, processed_tokens))>>

\* the pair (h, s)
Combine(total_spam_prob, total_ham_prob, processed_tokens) ==
    IF UseFisher(total_spam_prob, total_ham_prob)
    THEN FisherPair(total_spam_prob, total_ham_prob, processed_tokens)
    ELSE NaivePair(total_spam_prob, total_ham_prob)

\* FinalProb without the division by 2.0
FinalProb_NoHalving(h, s) ==
    IF is_finite(h) /\ is_finite(s)
    THEN FSub(FAdd(s, One), h)
    ELSE IF is_finite(h) THEN One
    ELSE IF is_finite(s) THEN Zero
    ELSE Half

\* FinalProb without the is_finite test
FinalProb_Unchecked(h, s) == FDiv(FSub(FAdd(s, One), h), Two)

\* final_prob
FinalProb(h, s) ==
    IF is_finite(h) /\ is_finite(s)
    THEN FDiv(FSub(FAdd(s, One), h), Two)
    ELSE IF is_finite(h) THEN One
    ELSE IF is_finite(s) THEN Zero
    ELSE Half

\* Decisive without .abs()
Decisive_NoAbs(processed_tokens, final_prob) ==
    processed_tokens > 0 /\ FGt(FSub(final_prob, Half), Indecision)

\* the final test: TRUE when Some(final_prob) is returned
Decisive(processed_tokens, final_prob) ==
    processed_tokens > 0 /\ FGt(FAbs(FSub(final_prob, Half)), Indecision)

(***************************************************************************)
(* One call of classify as a state machine.                                *)
(*                                                                         *)
(* self, ham_learns, spam_learns and input are the arguments of the call;  *)
(* run holds its position and locals: pc is the stage, branch the branch   *)
(* of the combiner that was taken, result the value returned ("none" for   *)
(* None, "some" for Some(final_prob)) and ret the return statement that    *)
(* produced it.  mirror holds the position and locals of the call on the   *)
(* swapped arguments (every token's spam and ham counts exchanged,         *)
(* ham_learns and spam_learns exchanged), which is advanced by the same    *)
(* steps.                                                                  *)
(***************************************************************************)
VARIABLES self, ham_learns, spam_learns, input, pos, run, mirror

vars == <<self, ham_learns, spam_learns, input, pos, run, mirror>>

\* a local that has not been assigned yet
Unset == [k |-> "unset", m |-> 0, e |-> 0]

\* the locals at entry: let mut processed_tokens = 0; total_*_prob = 0.0
Entry ==
    [pc |-> "gate", processed_tokens |-> 0,
     total_spam_prob |-> Zero, total_ham_prob |-> Zero,
     branch |-> "none", h |-> Unset, s |-> Unset, final_prob |-> Unset,
     result |-> "pending", ret |-> "none"]

Swapped(token) == [idx |-> token.idx, spam |-> token.ham, ham |-> token.spam]

\* if ... { return None; }
StepGate(r, hl, sl) ==
    IF r.pc # "gate" THEN r
    ELSE IF GateRejects(self, hl, sl)
    THEN [r EXCEPT !.pc = "done", !.result = "none", !.ret = "gate"]
    ELSE [r EXCEPT !.pc = "loop"]

\* for token in tokens { ... }
StepToken(r, token, hl, sl) ==
    IF r.pc # "loop" THEN r ELSE LoopBody(r, self, token, hl, sl)

\* the iterator is exhausted: if processed_tokens == 0 || ... { return None; }
StepEnd(r) ==
    IF r.pc # "loop" THEN r
    ELSE IF TooFewTokens(self, r.processed_tokens)
    THEN [r EXCEPT !.pc = "done", !.result = "none", !.ret = "tokens"]
    ELSE [r EXCEPT !.pc = "combine"]

\* the binding of the pair to (h, s)
Bind(r, hs, branch) == [r EXCEPT !.pc = "final", !.h = hs[1], !.s = hs[2], !.branch = branch]

\* let (h, s) = ...
StepCombine(r) ==
    IF r.pc # "combine" THEN r
    ELSE Bind(r, Combine(r.total_spam_prob, r.total_ham_prob, r.processed_tokens),
              IF UseFisher(r.total_spam_prob, r.total_ham_prob)
              THEN "fisher" ELSE "naive")

\* let final_prob = ...
StepFinal(r) ==
    IF r.pc # "final" THEN r
    ELSE [r EXCEPT !.pc = "test", !.final_prob = FinalProb(r.h, r.s)]

\* Some(final_prob) or None
StepReturn(r) ==
    IF r.pc # "test" THEN r
    ELSE [r EXCEPT !.pc = "done", !.ret = "test",
                   !.result = IF Decisive(r.processed_tokens, r.final_prob)
                              THEN "some" ELSE "none"]

Gate ==
    /\ run.pc = "gate"
    /\ run' = StepGate(run, ham_learns, spam_learns)
    /\ mirror' = StepGate(mirror, spam_learns, ham_learns)
    /\ UNCHANGED <<self, ham_learns, spam_learns, input, pos>>

NextToken ==
    /\ run.pc = "loop"
    /\ pos < Len(input)
    /\ run' = StepToken(run, input[pos + 1], ham_learns, spam_learns)
    /\ mirror' = StepToken(mirror, Swapped(input[pos + 1]), spam_learns, ham_learns)
    /\ pos' = pos + 1
    /\ UNCHANGED <<self, ham_learns, spam_learns, input>>

EndOfTokens ==
    /\ run.pc = "loop"
    /\ pos = Len(input)
    /\ run' = StepEnd(run)
    /\ mirror' = StepEnd(mirror)
    /\ UNCHANGED <<self, ham_learns, spam_learns, input, pos>>

Combiner ==
    /\ run.pc = "combine"
    /\ run' = StepCombine(run)
    /\ mirror' = StepCombine(mirror)
    /\ UNCHANGED <<self, ham_learns, spam_learns, input, pos>>

Finalizer ==
    /\ run.pc = "final"
    /\ run' = StepFinal(run)
    /\ mirror' = StepFinal(mirror)
    /\ UNCHANGED <<self, ham_learns, spam_learns, input, pos>>

Return ==
    /\ run.pc = "test"
    /\ run' = StepReturn(run)
    /\ mirror' = StepReturn(mirror)
    /\ UNCHANGED <<self, ham_learns, spam_learns, input, pos>>

Next == Gate \/ NextToken \/ EndOfTokens \/ Combiner \/ Finalizer \/ Return

(***************************************************************************)
(* Inputs.                                                                 *)
(***************************************************************************)
\* longest token stream of Spec
MaxLen == 2

Tok(i, sp, hm) == [idx |-> i, spam |-> sp, ham |-> hm]

Config(ml, mth, mps, mt) ==
    [min_learns |-> ml, min_token_hits |-> mth,
     min_prob_strength |-> mps, min_tokens |-> mt]

\* {min_learns: 0, min_token_hits: 1, min_prob_strength: 0.0, min_tokens: 0}
Scenario == Config(0, 1, Zero, 0)

Quarter == Norm(1, -2)

\* a call that is not made
Idle == [Entry EXCEPT !.pc = "idle"]

Configs ==
    {Scenario,
     Config(0, 0, Zero, 0),
     Config(2, 1, Quarter, 0),
     Config(0, 2, Quarter, 20),
     Config(2, 0, Zero, 20),
     Config(0, 1, Quarter, 20)}

Totals == {<<0, 0>>, <<1, 3>>, <<3, 1>>, <<3, 3>>}

Alphabet ==
    {Tok(0, 0, 0), Tok(0, 1, 1), Tok(0, 3, 1), Tok(1, 1, 3),
     Tok(5, 1, 0), Tok(5, 0, 1), Tok(5, 1, 1)}

Streams(A, n) == UNION {[1..l -> A] : l \in 0..n}

InitWith(C, T, S, M) ==
    /\ self \in C
    /\ \E t \in T : ham_learns = t[1] /\ spam_learns = t[2]
    /\ input \in S
    /\ pos = 0
    /\ run = Entry
    /\ mirror = M

\* calls on short token streams, under several configurations and totals
Init == InitWith(Configs, Totals, Streams(Alphabet, MaxLen), Idle)

Spec == Init /\ [][Next]_vars

\* calls of the concrete scenario: its configuration, equal totals, one token
OneTotals == {<<0, 0>>, <<1, 1>>, <<100, 100>>}

OneCounts == {0, 1, 2, 10, 90}

OneTokens == {Tok(i, sp, hm) : i \in 0..7, sp \in OneCounts, hm \in OneCounts}

InitOne == InitWith({Scenario}, OneTotals, [1..1 -> OneTokens], Idle)

SpecOne == InitOne /\ [][Next]_vars

\* calls on long streams: BulkLen - 1 or BulkLen tokens with spam = ham, then
\* at most one more token; the call on the swapped arguments is made too
BulkLen == 433

BulkToken == Tok(0, 1, 1)

LongTails == Streams({Tok(0, 1, 1), Tok(0, 1, 2), Tok(0, 2, 1), Tok(5, 0, 1)}, 1)

LongStreams ==
    {[i \in 1..(n + Len(tl)) |-> IF i <= n THEN BulkToken ELSE tl[i - n]] :
        n \in {BulkLen - 1, BulkLen}, tl \in LongTails}

InitLong == InitWith({Scenario}, {<<100, 100>>}, LongStreams, Entry)

SpecLong == InitLong /\ [][Next]_vars
(***************************************************************************)
(* Helpers of the properties.                                              *)
(***************************************************************************)
\* x <= n / d and x >= n / d, exactly, for finite x and 1/16 <= n / d
LeRatio(x, n, d) ==
    IF x.m <= 0 THEN TRUE
    ELSE IF x.e >= 0 THEN x.m * (2^x.e) * d <= n
    ELSE IF -x.e > 24 THEN TRUE
    ELSE x.m * d <= n * (2^(-x.e))

GeRatio(x, n, d) ==
    IF x.m <= 0 THEN FALSE
    ELSE IF x.e >= 0 THEN x.m * (2^x.e) * d >= n
    ELSE IF -x.e > 24 THEN FALSE
    ELSE x.m * d >= n * (2^(-x.e))

\* 0.45 <= x <= 0.55
InBand(x) == GeRatio(x, 9, 20) /\ LeRatio(x, 11, 20)

\* the call went through the finalizer and the final test
Finalized == run.ret = "test"

\* the floor of 0.1 * min_tokens
TenthOf(n) == n \div 10

\* x and y differ by less than 1/256
Close(x, y) == FLt(FAbs(FSub(x, y)), Norm(1, -8))

EqualCounts == \A i \in 1..Len(input) : input[i].spam = input[i].ham

(***************************************************************************)
(* Properties.                                                             *)
(***************************************************************************)
\* C1: when min_learns > 0 and spam_learns or ham_learns is below it, the call
\* returns None at the gate, before any token is taken, whatever the tokens
\* are; when min_learns = 0 the gate never returns.
C1_AdmissibilityGate ==
    /\ (run.pc # "gate" /\ self.min_learns > 0
        /\ (spam_learns < self.min_learns \/ ham_learns < self.min_learns))
       => (run.ret = "gate" /\ run.result = "none" /\ pos = 0
           /\ run.processed_tokens = 0)
    /\ self.min_learns = 0 => run.ret # "gate"

\* C1: a call with tokens to read was turned away at the gate
C1_Witness == run.ret = "gate" /\ Len(input) > 0 /\ run.result = "none"

\* C2 as stated: a returned probability lies strictly between 0 and 1
C2_OpenRange ==
    run.result = "some" => FGt(run.final_prob, Zero) /\ FLt(run.final_prob, One)

\* C2 amended: a returned probability lies in the closed interval [0, 1]
C2_ClosedRange ==
    run.result = "some" =>
        /\ is_finite(run.final_prob)
        /\ ~FLt(run.final_prob, Zero)
        /\ ~FGt(run.final_prob, One)

\* C2: an endpoint of the interval was returned
C2_Witness == run.result = "some" /\ run.final_prob \in {Zero, One}

\* C3: whatever the log-sums are, final_prob is a finite number and so is any
\* returned probability; a non-finite log-sum never takes the Fisher branch,
\* and non-finite h or s resolve to 1.0, 0.0 or 0.5.
C3_FiniteResult ==
    /\ run.result = "some" => is_finite(run.final_prob)
    /\ (run.pc = "test" \/ Finalized) => is_finite(run.final_prob)
    /\ run.branch = "fisher" =>
           /\ is_finite(run.total_spam_prob) /\ is_finite(run.total_ham_prob)
           /\ is_finite(run.h) /\ is_finite(run.s)
    /\ (Finalized /\ ~(is_finite(run.h) /\ is_finite(run.s)))
       => run.final_prob \in {One, Zero, Half}

\* C3: a call whose log-sums and confidences were NaN has returned
C3_Witness ==
    /\ Finalized
    /\ IsNaN(run.total_spam_prob) /\ IsNaN(run.h) /\ IsNaN(run.s)
    /\ run.final_prob = Half

\* C4: a call that reached the final test returns None when final_prob lies
\* in [0.45, 0.55] and Some(final_prob) when it lies outside.
C4_DecisivenessThreshold ==
    Finalized =>
        /\ run.processed_tokens > 0
        /\ InBand(run.final_prob) => run.result = "none"
        /\ ~InBand(run.final_prob) => run.result = "some"

\* C4: a call returned None for a final_prob inside the band other than 0.5
C4_Witness ==
    Finalized /\ run.result = "none" /\ run.final_prob # Half
    /\ InBand(run.final_prob)

\* C5 as stated: when the call and the call on the swapped arguments both
\* return Some, the two probabilities add up to 1.
C5_Symmetry ==
    (run.result = "some" /\ mirror.result = "some")
        => Close(mirror.final_prob, FSub(One, run.final_prob))

\* C6 as stated: a stream whose tokens all have spam = ham returns None.
C6_NoDirectionalEvidence ==
    (run.pc = "done" /\ EqualCounts) => run.result = "none"

\* C7: under the scenario's configuration, with equal totals and one token,
\* a returned probability is above 0.5 when spam > ham and below 0.5 when
\* spam < ham; the tokens {90, 10} and {10, 90} at index 0 with totals 100
\* return such a probability.
C7_SingleTokenPolarity ==
    (self = Scenario /\ ham_learns = spam_learns /\ Len(input) = 1) =>
        /\ run.result = "some" =>
              /\ input[1].spam > input[1].ham => FGt(run.final_prob, Half)
              /\ input[1].spam < input[1].ham => FLt(run.final_prob, Half)
        /\ (run.pc = "done" /\ ham_learns = 100 /\ input[1] = Tok(0, 90, 10))
              => (run.result = "some" /\ FGt(run.final_prob, Half))
        /\ (run.pc = "done" /\ ham_learns = 100 /\ input[1] = Tok(0, 10, 90))
              => (run.result = "some" /\ FLt(run.final_prob, Half))

\* C7: the scenario's token {spam: 90, ham: 10} was classified
C7_Witness ==
    /\ self = Scenario /\ ham_learns = 100 /\ spam_learns = 100
    /\ input = <<Tok(0, 90, 10)>>
    /\ run.result = "some" /\ FGt(run.final_prob, Half)

\* C8: once the stream is exhausted, a counter of 0, or one below the floor
\* of 0.1 * min_tokens when min_tokens > 0, makes the call return None there;
\* the combiner and the finalizer are reached with neither.
C8_SufficiencyGate ==
    /\ (run.pc \in {"combine", "final", "test"} \/ run.ret \in {"tokens", "test"})
       => pos = Len(input)
    /\ (pos = Len(input) /\ run.pc \notin {"gate", "loop"} /\ run.ret # "gate"
        /\ (run.processed_tokens = 0
            \/ (self.min_tokens > 0
                /\ run.processed_tokens < TenthOf(self.min_tokens))))
       => (run.ret = "tokens" /\ run.result = "none")
    /\ (run.pc \in {"combine", "final", "test"} \/ Finalized)
       => /\ run.processed_tokens > 0
          /\ self.min_tokens > 0
                => run.processed_tokens >= TenthOf(self.min_tokens)

\* C8: a call returned None after the loop with a counter above 0
C8_Witness ==
    run.ret = "tokens" /\ run.processed_tokens > 0 /\ self.min_tokens > 0

\* C9 as stated: an admitted token whose shrunk spam probability is within
\* min_prob_strength of 0.5 (0.5 itself included when min_prob_strength > 0)
\* leaves both log-sums and the counter unchanged; any other admitted token
\* adds the two logarithms and 1.
C9_StrengthFilter ==
    [][(run.pc = "loop" /\ pos < Len(input)
        /\ input[pos + 1].spam + input[pos + 1].ham >= self.min_token_hits)
       => IF FLt(FAbs(FSub(bayes_spam_prob(
                     TokenProbs(input[pos + 1], ham_learns, spam_learns)), Half)),
                 self.min_prob_strength)
          THEN /\ run'.total_spam_prob = run.total_spam_prob
               /\ run'.total_ham_prob = run.total_ham_prob
               /\ run'.processed_tokens = run.processed_tokens
          ELSE /\ run'.total_spam_prob = FAdd(run.total_spam_prob,
                      FLn(bayes_spam_prob(
                          TokenProbs(input[pos + 1], ham_learns, spam_learns))))
               /\ run'.total_ham_prob = FAdd(run.total_ham_prob,
                      FLn(bayes_ham_prob(
                          TokenProbs(input[pos + 1], ham_learns, spam_learns))))
               /\ run'.processed_tokens = run.processed_tokens + 1]_vars

\* C10 as stated: a probability returned from the naive branch is above 0.5
\* when the spam log-sum is the greater and below 0.5 when it is the smaller.
C10_NaivePolarity ==
    (run.branch = "naive" /\ run.result = "some") =>
        /\ FGt(run.total_spam_prob, run.total_ham_prob) => FGt(run.final_prob, Half)
        /\ FLt(run.total_spam_prob, run.total_ham_prob) => FLt(run.final_prob, Half)

=============================================================================
